---- MODULE Spec2Model ----
(***************************************************************************)
(* Model of the collaborative code editor's WebSocketService               *)
(* (src/collaborative-code-editor/src/shared/services/websocket.service.ts)*)
(* as a state machine.  The state is the service object's fields plus the  *)
(* socket.io sockets it created and the timers and promises still pending. *)
(* Every action is one run-to-completion step of the single JavaScript     *)
(* thread: a public method call, a socket event with all its listeners, or *)
(* a timer callback, including the promise reactions it triggers.          *)
(*                                                                         *)
(* The socket is socket.io-client's (v4): `connected` is set before the    *)
(* 'connect' listeners run and cleared before the 'disconnect' listeners   *)
(* run; disconnect() on a connected socket runs the 'disconnect' listeners *)
(* synchronously with reason 'io client disconnect'; listeners run in      *)
(* registration order and an exception thrown by one aborts the rest.      *)
(*                                                                         *)
(* The module also models the useThrottle hook that paces the editor's     *)
(* cursor updates (src/shared/hooks/useThrottle.ts) and the collaboration  *)
(* store (src/shared/stores/collaborationStore.ts); each has its own       *)
(* variables and its own specification.                                    *)
(***************************************************************************)
EXTENDS Integers, Sequences, FiniteSets, Bags, TLC

\* ---------------------------------------------------------------- constants
RECONNECT_INTERVAL == 3000
MAX_RECONNECT_ATTEMPTS == 5
CURSOR_UPDATE_THROTTLE == 100
TYPING_INDICATOR_TIMEOUT == 2000
RETRY_ATTEMPTS == 3
RETRY_DELAY == 1000
\* the delay of the auto-save timer
AutoSaveDelay == 2000
\* the delay the component passes to useDebounce
DebounceDelay == 500

\* ------------------------------------------------------------------- bounds
\* sockets alive at once (this.socket and replaced sockets whose listeners
\* or connect timeout can still run)
MaxSockets == 2
\* reconnect timers pending at once
MaxTimers == 1
\* on() calls made
MaxSubs == 2
\* the same three bounds for the reconnection scenario (SpecReconnect), which
\* needs MAX_RECONNECT_ATTEMPTS + 2 sockets to exhaust the attempts
BurstSockets == 7
BurstTimers == 1
BurstSubs == 1
\* reconnect timers pending at once in the teardown scenario
TeardownTimers == 2
\* change operations issued by the replicas together
MaxOps == 2
\* how long the editor's clock runs
MaxEditorTime == 4000
\* changes of the value passed to useDebounce, and how long its clock runs
MaxChanges == 3
MaxDebounceTime == 1500
\* requests the application makes through the API service
MaxReqs == 3
\* application requests that meet network errors and 5xx answers
MaxFlaky == 1
\* the same bounds for the event router (SpecRouter), whose registry does
\* not depend on how many sockets there are
RouterSockets == 1
RouterTimers == 0
\* calls of the throttled function, and the time (ms) the throttle is watched
MaxCalls == 4
MaxTime == 300
\* the time (ms) the collaboration store is watched
MaxStoreTime == 3000

NULL == "null"
Users == {"u1"}
Sessions == {"s1", "s2"}
HandlerIds == {"h1", "h2"}

\* WebSocketEventType: the event names the service listens to on the socket
WebSocketEventType ==
  {"connect", "disconnect", "join_session", "leave_session", "cursor_move",
   "content_change", "user_typing", "presence_update", "error"}
\* event names the application subscribes to in the model
OnEvents == {"cursor_move", "connection:failed"}
\* event names the server sends in the model: one the service listens to and
\* one it does not
InboundTypes == {"cursor_move", "connection:failed"}
\* 'disconnect' reasons of socket.io for a loss the client did not ask for
ServerDisconnect == "io server disconnect"
LossReasons == {ServerDisconnect, "transport close"}

Pow2(n) == IF n <= 0 THEN 1 ELSE 2 ^ n

VARIABLES
  socket,            \* this.socket: NoSocket or the socket record
  stale,             \* bag of sockets the service created and dropped
  reconnectAttempts, \* this.reconnectAttempts
  reconnectTimer,    \* this.reconnectTimer: NoTimer, PendingTimer or FiredTimer
  orphanTimers,      \* number of pending reconnect timers whose handle was overwritten
  heartbeatTimer,    \* this.heartbeatTimer is set
  isConnected,       \* this.isConnected
  sessionId,         \* this.sessionId
  userId,            \* this.userId
  registry,          \* this.eventHandlers: event -> Set object (0: no entry)
  sets,              \* the Set objects ever put in eventHandlers
  subs,              \* the unsubscribe closures returned by on(), in call order;
                     \* active is history: registered, and neither unsubscribed
                     \* by its own closure nor cleared by disconnect() since
  awaitingPong,      \* a ping was sent on this.socket and no pong came back yet
  pongMissed,        \* a whole heartbeat interval passed without that pong
  joined,            \* history: the session of the last join_session sent with
                     \* no leave_session sent since, NULL if there is none
  out                \* what the last step did: call, error thrown, messages sent,
                     \* handlers invoked, connect promise settled

\* Date.now()
VARIABLE clock

\* useThrottle
VARIABLES
  lastRun,           \* lastRun.current
  timeoutRef,        \* timeoutRef.current: the timer set last, NoTimeout if none
                     \* is set or it has fired or was cleared
  runs,              \* history: the invocations of callback, [at, arg] each
  supplied           \* history: number of calls of the throttled function; the
                     \* k-th call passes k as its argument

throttleVars == <<lastRun, timeoutRef, runs, supplied>>

\* useCollaborationStore
VARIABLES
  participants,      \* state.participants: Map userId -> participant
  cursorPositions,   \* state.cursorPositions: Map userId -> position
  typingUsers,       \* state.typingUsers: Set of userId
  typedAt,           \* history: the time of the user's last typing event
  storeOut           \* the last store action: name, user, argument, and (hit)
                     \* whether it found the user in every collection it writes

storeVars == <<participants, cursorPositions, typingUsers, typedAt, storeOut>>

serviceVars ==
  <<socket, stale, reconnectAttempts, reconnectTimer, orphanTimers,
    heartbeatTimer, isConnected, sessionId, userId, registry, sets, subs,
    awaitingPong, pongMissed, joined, out>>

\* two replicas of one document, each in its own editor
VARIABLES
  text,              \* replica -> the text the replica's editor shows
  ops,               \* history: the change operations issued so far
  received           \* history: replica -> the remote operations delivered to it

replicaVars == <<text, ops, received>>

\* ApiService and the requests made through its axios instance
VARIABLES
  reqs,              \* request -> its config and promise: st, _retry, _retryCount;
                     \* the token refresh requests are in it too (by: the
                     \* request whose 401 started the refresh)
  isRefreshing,      \* this.isRefreshing
  requestQueue,      \* this.requestQueue: the requests whose callbacks wait
  hasRefreshToken,   \* localStorage holds a refresh token
  apiOut             \* the last step: event, request, status, the requests it
                     \* re-sent in order, the delay it started

apiVars == <<reqs, isRefreshing, requestQueue, hasRefreshToken, apiOut>>

\* a component that renders with useDebounce(value, delay)
VARIABLES
  dbValue,           \* the value passed to the hook in the last render
  dbChangedAt,       \* (ghost) when that value was first passed
  debouncedValue,    \* the value the hook returns
  dbTimers           \* the timers the hook's effect has pending

debounceVars == <<dbValue, dbChangedAt, debouncedValue, dbTimers>>

\* the CodeEditor component and the file system service behind it
VARIABLES
  files,             \* file -> node.content in the file system service
  currentFile,       \* the currentFile prop
  content,           \* the content state: what the editor shows
  hasUnsavedChanges, \* the hasUnsavedChanges state
  saveTimeout,       \* the auto-save timer and what its callback closes over
  saveCommand,       \* the Ctrl+S command and what it closes over
  edited,            \* (ghost) file -> the content last typed into it
  editorOut          \* the last step

editorVars == <<files, currentFile, content, hasUnsavedChanges, saveTimeout,
                saveCommand, edited, editorOut>>

\* the editor store (useEditorStore)
VARIABLES
  openFiles,         \* state.openFiles: the open documents, in tab order
  currentDoc,        \* state.currentFile
  editorStoreOut     \* the last action of the store and its file id

editorStoreVars == <<openFiles, currentDoc, editorStoreOut>>

\* FileSystemService (shared/components/atoms/Input.tsx): the file tree and
\* the last call with its result
VARIABLES fileTree, fsOut
fsVars == <<fileTree, fsOut>>

\* useAutoSave (unnamed/part_005): the content and enabled props, the value
\* useDebounce returns, the previousContent ref, the contents of the onSave
\* promises not yet settled, and the last step
VARIABLES asContent, debouncedContent, asEnabled, previousContent, savePromises, autoSaveOut
autoSaveVars == <<asContent, debouncedContent, asEnabled, previousContent, savePromises, autoSaveOut>>

\* the variables of the other components
others == <<throttleVars, storeVars, replicaVars, apiVars, debounceVars, editorVars, editorStoreVars, fsVars, autoSaveVars>>
notService == others
notThrottle == <<serviceVars, storeVars, replicaVars, apiVars, debounceVars, editorVars, editorStoreVars, fsVars, autoSaveVars>>
notStore == <<serviceVars, throttleVars, replicaVars, apiVars, debounceVars, editorVars, editorStoreVars, fsVars, autoSaveVars>>
notReplica == <<serviceVars, throttleVars, storeVars, apiVars, debounceVars, editorVars, editorStoreVars, fsVars, autoSaveVars>>
notApi == <<serviceVars, throttleVars, storeVars, replicaVars, debounceVars, editorVars, editorStoreVars, fsVars, autoSaveVars>>
notDebounce == <<serviceVars, throttleVars, storeVars, replicaVars, apiVars, editorVars, editorStoreVars, fsVars, autoSaveVars>>
notEditor == <<serviceVars, throttleVars, storeVars, replicaVars, apiVars, debounceVars, editorStoreVars, fsVars, autoSaveVars>>
notEditorStore == <<serviceVars, throttleVars, storeVars, replicaVars, apiVars, debounceVars, editorVars, fsVars, autoSaveVars>>
notFs == <<serviceVars, throttleVars, storeVars, replicaVars, apiVars, debounceVars, editorVars, editorStoreVars, autoSaveVars>>
notAutoSave == <<serviceVars, throttleVars, storeVars, replicaVars, apiVars, debounceVars, editorVars, editorStoreVars, fsVars>>
notClock == <<serviceVars, others>>

vars == <<serviceVars, clock, others>>

\* A socket: st is socket.io's state, pending says the connect() promise that
\* created it (and its 10 s timeout) is unsettled, catch says that promise
\* was created by the reconnect timer (which attaches .catch).  cut is
\* history: disconnect() was called while the promise was pending.
Sock(st, pending, catch) ==
  [st |-> st, pending |-> pending, catch |-> catch, cut |-> FALSE]
\* this.socket = null
NoSocket == Sock("null", FALSE, FALSE)
\* this.reconnectTimer: null, the handle of a pending timer, or the handle of
\* a timer that has fired (still not null)
NoTimer == "null"
PendingTimer == "pending"
FiredTimer == "fired"

\* timeoutRef.current with no timer to fire
NoTimeout == [pending |-> FALSE, due |-> 0, arg |-> 0]

\* the users, cursor positions and participant data of the store model
StoreUsers == {"a", "b"}
Positions == {"p1", "p2"}
ParticipantData == {"d1", "d2"}
NoStoreOut == [op |-> "init", user |-> NULL, arg |-> NULL, hit |-> FALSE]

\* the replicas, the text both start from and the characters typed
Replicas == {"A", "B"}
InitialText == <<"a", "b">>
Typed == {"X"}

DebounceSteps == {250}
\* the documents of the editor store and their contents; currentFile: null
DocIds == {"d1", "d2", "d3"}
DocContents == {"old", "new"}
Docs == [id : DocIds, content : DocContents]
NoDoc == [id |-> NULL, content |-> NULL]
\* the files of the file system service; no file is open at first
Files == {"f1", "f2"}
NoFile == "none"
\* what the user types makes the editor show one of these
EditorValues == {"x", "y"}
EditorSteps == {1000}
NoSave == [pending |-> FALSE, file |-> NoFile, content |-> "", due |-> 0]
NoCommand == [set |-> FALSE, file |-> NoFile, content |-> ""]
\* the application's requests, and the requests refreshToken() posts
ReqIds == 1..MaxReqs
RefreshIds == {-1, -2}
\* the requests that meet network errors and 5xx answers
Flaky == 1..MaxFlaky \cup RefreshIds
\* what the server answers: a success, an HTTP error status, or nothing
Statuses == {"200", "401", "404", "500", "network"}
\* a 200 answer to /auth/refresh whose body says success: false
RefreshRefused == "200 success:false"
NewReq == [st |-> "idle", retry |-> FALSE, retryCount |-> 0, by |-> 0,
           delay |-> 0, retries |-> 0, triggered |-> 0]
\* a request whose promise is settled; its config is garbage
Settled(st) == [NewReq EXCEPT !.st = st]
NoApiOut == [op |-> "init", req |-> 0, status |-> NULL, resent |-> <<>>,
             delay |-> 0, retryCount |-> 0]

\* the amounts of time that pass between two events
ThrottleSteps == {50, 100}
StoreSteps == {1000}

NoOut == [op |-> "init", arg |-> NULL, thrown |-> FALSE, sent |-> <<>>,
          dispatched |-> {}, settled |-> "none", cut |-> FALSE, scheduled |-> 0]

\* The service state as one record, so that a handler is a function of it.
Cur ==
  [socket |-> socket, stale |-> stale, reconnectAttempts |-> reconnectAttempts,
   reconnectTimer |-> reconnectTimer, orphanTimers |-> orphanTimers,
   heartbeatTimer |-> heartbeatTimer, isConnected |-> isConnected,
   sessionId |-> sessionId, userId |-> userId, registry |-> registry,
   sets |-> sets, subs |-> subs, awaitingPong |-> awaitingPong,
   pongMissed |-> pongMissed, joined |-> joined,
   thrown |-> FALSE, sent |-> <<>>, dispatched |-> {}, settled |-> "none",
   cut |-> FALSE, scheduled |-> 0]

Commit(s, op, arg) ==
  /\ socket' = s.socket
  /\ stale' = s.stale
  /\ reconnectAttempts' = s.reconnectAttempts
  /\ reconnectTimer' = s.reconnectTimer
  /\ orphanTimers' = s.orphanTimers
  /\ heartbeatTimer' = s.heartbeatTimer
  /\ isConnected' = s.isConnected
  /\ sessionId' = s.sessionId
  /\ userId' = s.userId
  /\ registry' = s.registry
  /\ sets' = s.sets
  /\ subs' = s.subs
  /\ awaitingPong' = s.awaitingPong
  /\ pongMissed' = s.pongMissed
  /\ joined' = s.joined
  /\ out' = [op |-> op, arg |-> arg, thrown |-> s.thrown, sent |-> s.sent,
             dispatched |-> s.dispatched, settled |-> s.settled,
             cut |-> s.cut, scheduled |-> s.scheduled]
  /\ UNCHANGED <<clock, notService>>

\* ---- FileSystemService ----
\* bound: the number of node ids nanoid() hands out
MaxNodes == 3
\* bound: the length of the paths followed (a rename can lengthen a path
\* each time)
MaxPath == 6
NodeIds == 1..MaxNodes
\* parentId of a root node (null / undefined in the source)
NoParent == 0
\* a name or a path is a sequence of pieces: "/" or a text without "/"
FsNames == {<<"src">>, <<"b">>, <<"a", "/", "b">>}
\* the tree as loaded by the constructor: the folder /src with one file
DefaultTree ==
  (1 :> [name |-> <<"src">>, type |-> "folder", path |-> <<"/", "src">>, parentId |-> NoParent])
  @@ (2 :> [name |-> <<"b">>, type |-> "file", path |-> <<"/", "src", "/", "b">>, parentId |-> 1])

\* ---- useAutoSave ----
\* the contents the editor passes, the empty content among them
Contents == {"", "x", "y"}
InitialContent == "x"
\* no call of onSave, nothing recorded as saved
NoCall == "none"
\* what a call of onSave does: return a promise, return void, or throw
SaveKinds == {"promise", "void", "throws"}

Init ==
  /\ socket = NoSocket
  /\ stale = EmptyBag
  /\ reconnectAttempts = 0
  /\ reconnectTimer = NoTimer
  /\ orphanTimers = 0
  /\ heartbeatTimer = FALSE
  /\ isConnected = FALSE
  /\ sessionId = NULL
  /\ userId = NULL
  /\ registry = [e \in OnEvents |-> 0]
  /\ sets = <<>>
  /\ subs = <<>>
  /\ awaitingPong = FALSE
  /\ pongMissed = FALSE
  /\ joined = NULL
  /\ out = NoOut
  /\ clock = 0
  /\ lastRun = 0
  /\ timeoutRef = NoTimeout
  /\ runs = <<>>
  /\ supplied = 0
  /\ participants = <<>>
  /\ cursorPositions = <<>>
  /\ typingUsers = {}
  /\ typedAt = [u \in StoreUsers |-> 0]
  /\ storeOut = NoStoreOut
  /\ files = [f \in Files |-> ""]
  /\ currentFile = NoFile
  /\ content = ""
  /\ hasUnsavedChanges = FALSE
  /\ saveTimeout = NoSave
  /\ saveCommand = NoCommand
  /\ edited = [f \in Files |-> NULL]
  /\ editorOut = "init"
  /\ asContent = InitialContent
  /\ debouncedContent = InitialContent
  /\ asEnabled = TRUE
  /\ previousContent = InitialContent
  /\ savePromises = {}
  /\ autoSaveOut = [op |-> "init", effect |-> FALSE, onSave |-> NoCall, saved |-> NoCall]
  /\ fileTree = DefaultTree
  /\ fsOut = [op |-> "init", parentId |-> NoParent, ret |-> NULL]
  /\ openFiles = <<>>
  /\ currentDoc = NoDoc
  /\ editorStoreOut = [op |-> "init", id |-> NULL]
  /\ dbValue = 0
  /\ dbChangedAt = 0
  /\ debouncedValue = 0
  /\ dbTimers = {[due |-> DebounceDelay, value |-> 0]}
  /\ reqs = [id \in ReqIds \cup RefreshIds |-> NewReq]
  /\ isRefreshing = FALSE
  /\ requestQueue = <<>>
  /\ hasRefreshToken = TRUE
  /\ apiOut = NoApiOut
  /\ text = [r \in Replicas |-> InitialText]
  /\ ops = {}
  /\ received = [r \in Replicas |-> {}]

\* this.socket?.connected
SocketConnected(s) == s.socket.st = "connected"

\* get connected()
Connected(s) == s.isConnected /\ SocketConnected(s)


\* ------------------------------------------------------------ bookkeeping
TimerPending(t) == t = PendingTimer
TimersPending(s) ==
  s.orphanTimers + (IF TimerPending(s.reconnectTimer) THEN 1 ELSE 0)
SocketsAlive(s) ==
  BagCardinality(s.stale) + (IF s.socket = NoSocket THEN 0 ELSE 1)
WithinBounds(s, maxSockets, maxTimers) ==
  /\ TimersPending(s) <= maxTimers
  /\ SocketsAlive(s) <= maxSockets

\* A dropped socket that is closed and whose promise is settled can do nothing.
Garbage(x) == x.st = "closed" /\ ~x.pending
\* the sockets whose listeners exist: this.socket (cur) and the dropped ones
Sockets(s) ==
  (IF s.socket = NoSocket THEN {} ELSE {[cur |-> TRUE, x |-> s.socket]})
  \cup {[cur |-> FALSE, x |-> y] : y \in BagToSet(s.stale)}
\* the socket w becomes new
Replace(s, w, new) ==
  IF w.cur THEN [s EXCEPT !.socket = new]
  ELSE [s EXCEPT !.stale =
          IF Garbage(new) THEN @ (-) SetToBag({w.x})
          ELSE (@ (-) SetToBag({w.x})) (+) SetToBag({new})]

\* ------------------------------------------------------------ the service
Str(v) == IF v = NULL THEN "" ELSE v
Envelope(s, event, payload) ==
  [type |-> event, payload |-> payload, sessionId |-> Str(s.sessionId),
   userId |-> Str(s.userId), timestamp |-> "now"]

\* emit(event, data) without the check of socket.connected
emitUnguarded(s, event, payload) ==
  [s EXCEPT !.sent = Append(@, Envelope(s, event, payload))]

\* emit(event, data)
emit(s, event, payload) ==
  IF ~SocketConnected(s) THEN [s EXCEPT !.thrown = TRUE]
  ELSE [s EXCEPT !.sent = Append(@, Envelope(s, event, payload))]

\* the handler functions of the model that throw when they are invoked
Throws(h) == h = "h1"

\* handler(message.payload) without the try/catch around it
InvokeUncaught(s, eventType, h) ==
  [s EXCEPT !.dispatched = @ \cup {<<eventType, h>>}, !.thrown = Throws(h)]

\* try { handler(message.payload) } catch (error) { }
TryInvoke(s, eventType, h) ==
  [s EXCEPT !.dispatched = @ \cup {<<eventType, h>>}, !.thrown = FALSE]

\* handlers.forEach(...): an exception that escapes the callback ends the loop
RECURSIVE forEach(_, _, _)
forEach(s, eventType, handlers) ==
  IF handlers = {} THEN s
  ELSE LET h  == CHOOSE x \in handlers : TRUE
           s1 == TryInvoke(s, eventType, h)
       IN  IF s1.thrown THEN s1 ELSE forEach(s1, eventType, handlers \ {h})

\* handleMessage(eventType, message)
handleMessage(s, eventType) ==
  IF eventType \in DOMAIN s.registry /\ s.registry[eventType] # 0
  THEN forEach(s, eventType, s.sets[s.registry[eventType]])
  ELSE s

\* startHeartbeat()
startHeartbeat(s) == [s EXCEPT !.heartbeatTimer = TRUE]

\* the delay of reconnect attempt number k
ReconnectDelay(k) == RECONNECT_INTERVAL * Pow2(k - 1)

\* setTimeout(..., delay) stored in this.reconnectTimer; the timer whose
\* handle is overwritten stays pending
ScheduleReconnect(s, delay) ==
  [s EXCEPT !.orphanTimers = IF TimerPending(s.reconnectTimer) THEN @ + 1 ELSE @,
            !.reconnectTimer = PendingTimer,
            !.scheduled = delay]

\* attemptReconnection() with the guard off by one (> instead of >=)
attemptReconnectionOffByOne(s) ==
  IF \/ s.reconnectAttempts > MAX_RECONNECT_ATTEMPTS
     \/ s.userId = NULL
     \/ s.sessionId = NULL
  THEN emit(s, "connection:failed", "max")
  ELSE LET s1 == [s EXCEPT !.reconnectAttempts = @ + 1]
           s2 == emit(s1, "connection:reconnecting", "attempt")
       IN  IF s2.thrown THEN s2
           ELSE ScheduleReconnect(s2, ReconnectDelay(s2.reconnectAttempts))

\* attemptReconnection()
attemptReconnection(s) ==
  IF \/ s.reconnectAttempts >= MAX_RECONNECT_ATTEMPTS
     \/ s.userId = NULL
     \/ s.sessionId = NULL
  THEN emit(s, "connection:failed", "max")
  ELSE LET s1 == [s EXCEPT !.reconnectAttempts = @ + 1]
           s2 == emit(s1, "connection:reconnecting", "attempt")
       IN  IF s2.thrown THEN s2
           ELSE ScheduleReconnect(s2, ReconnectDelay(s2.reconnectAttempts))

\* handleConnect()
handleConnect(s) ==
  emit([s EXCEPT !.isConnected = TRUE, !.reconnectAttempts = 0],
       "connection:established", "connected")

\* handleDisconnect(reason) without the check of the reason
handleDisconnectAlwaysRetry(s, reason) ==
  LET s1 == emit([s EXCEPT !.isConnected = FALSE], "connection:lost", reason)
  IN  IF s1.thrown THEN s1 ELSE attemptReconnection(s1)

\* handleDisconnect(reason)
handleDisconnect(s, reason) ==
  LET s1 == emit([s EXCEPT !.isConnected = FALSE], "connection:lost", reason)
  IN  IF s1.thrown THEN s1
      ELSE IF reason = ServerDisconnect THEN s1
      ELSE attemptReconnection(s1)

\* handleError(error)
handleError(s) == emit(s, "connection:error", "error")

\* connect(userId, sessionId); catch: the caller attached .catch (the timer)
connect(s, u, sid, catch) ==
  IF SocketConnected(s) THEN [s EXCEPT !.settled = "resolved"]
  ELSE [s EXCEPT !.userId = u,
                 !.sessionId = sid,
                 !.stale = IF s.socket = NoSocket \/ Garbage(s.socket) THEN @
                           ELSE @ (+) SetToBag({s.socket}),
                 !.socket = Sock("connecting", TRUE, catch),
                 !.awaitingPong = FALSE,
                 !.pongMissed = FALSE]

\* the reaction of the reconnect timer's .catch to a rejected connect()
CatchReconnect(s) ==
  LET s1 == emit(s, "connection:error", "error")
  IN  IF s1.thrown THEN s1 ELSE attemptReconnection(s1)

\* reject(...) of the promise of socket x
Reject(s, x) ==
  IF ~x.pending THEN s
  ELSE LET s1 == [s EXCEPT !.settled = "rejected", !.cut = x.cut]
       IN  IF x.catch THEN CatchReconnect(s1) ELSE s1

\* the listeners of 'connect' on socket `which`, in registration order:
\* handleConnect, handleMessage('connect'), then connect()'s once listener
OnConnect(s, w) ==
  LET x  == w.x
      s1 == handleConnect(s)
      s2 == handleMessage(s1, "connect")
      s3 == startHeartbeat([s2 EXCEPT !.isConnected = TRUE,
                                      !.reconnectAttempts = 0])
      s4 == Replace(s3, w, Sock(x.st, FALSE, FALSE))
  IN  IF s1.thrown THEN s1
      ELSE [s4 EXCEPT !.settled = IF x.pending THEN "resolved" ELSE "none",
                      !.cut = x.pending /\ x.cut]

\* the listeners of 'disconnect': handleDisconnect, handleMessage('disconnect')
OnDisconnect(s, reason) ==
  LET s1 == handleDisconnect(s, reason)
  IN  IF s1.thrown THEN s1 ELSE handleMessage(s1, "disconnect")

\* history only: disconnect() is called while these promises are pending
MarkCut(x) == IF x.pending THEN [x EXCEPT !.cut = TRUE] ELSE x
CutPending(s) ==
  [s EXCEPT !.socket = MarkCut(@), !.stale = BagOfAll(MarkCut, @)]

\* disconnect()
disconnect(s) ==
  LET s0 == CutPending(s)
      s1 == [s0 EXCEPT !.reconnectTimer = NoTimer,
                       !.heartbeatTimer = FALSE]
      x  == s1.socket
      \* this.socket.disconnect()
      s2 == IF x = NoSocket THEN s1
            ELSE IF x.st = "connected"
                 THEN OnDisconnect([s1 EXCEPT !.socket.st = "closed"],
                                   "io client disconnect")
                 ELSE [s1 EXCEPT !.socket.st = "closed"]
      y  == s2.socket
      \* this.socket = null
      s3 == IF y = NoSocket THEN s2
            ELSE [s2 EXCEPT !.socket = NoSocket,
                            !.stale = IF Garbage(y) THEN @
                                      ELSE @ (+) SetToBag({y})]
  IN  IF s2.thrown THEN s2
      ELSE [s3 EXCEPT !.isConnected = FALSE,
                      !.registry = [e \in DOMAIN @ |-> 0],
                      !.subs = [i \in DOMAIN @ |-> [@[i] EXCEPT !.active = FALSE]]]

\* on(event, handler): the closure keeps the Set object it added to
on(s, event, h) ==
  LET fresh == s.registry[event] = 0
      id    == IF fresh THEN Len(s.sets) + 1 ELSE s.registry[event]
      sets1 == IF fresh THEN Append(s.sets, {}) ELSE s.sets
  IN  [s EXCEPT !.sets = [sets1 EXCEPT ![id] = @ \cup {h}],
                !.registry = [@ EXCEPT ![event] = id],
                !.subs = Append(@, [set |-> id, event |-> event, h |-> h,
                                    active |-> TRUE])]

\* the unsubscribe function returned by the i-th on() call
unsubscribe(s, i) ==
  LET c     == s.subs[i]
      sets1 == [s.sets EXCEPT ![c.set] = @ \ {c.h}]
  IN  [s EXCEPT !.sets = sets1,
                !.registry = IF sets1[c.set] = {}
                             THEN [@ EXCEPT ![c.event] = 0] ELSE @,
                !.subs[i].active = FALSE]

\* joinSession(sessionId)
joinSession(s, sid) ==
  LET s1 == emit([s EXCEPT !.sessionId = sid], "join_session", sid)
  IN  IF s1.thrown THEN s1 ELSE [s1 EXCEPT !.joined = sid]

\* leaveSession()
leaveSession(s) ==
  IF s.sessionId = NULL THEN s
  ELSE LET s1 == emit(s, "leave_session", s.sessionId)
       IN  IF s1.thrown THEN s1
           ELSE [s1 EXCEPT !.sessionId = NULL, !.joined = NULL]

\* ---------------------------------------------------------------- actions
\* A step is committed only if it keeps the model within (maxSockets, maxTimers).
Step(s, op, arg, maxSockets, maxTimers) ==
  WithinBounds(s, maxSockets, maxTimers) /\ Commit(s, op, arg)

Connect(u, sid, mS, mT) ==
  Step(connect(Cur, u, sid, FALSE), "connect", sid, mS, mT)

Disconnect(mS, mT) ==
  Step(disconnect(Cur), "disconnect", NULL, mS, mT)

On(e, h, maxSubs) ==
  /\ Len(subs) < maxSubs
  /\ Commit(on(Cur, e, h), "on", e)

Unsubscribe(i) ==
  Commit(unsubscribe(Cur, i), "unsubscribe", subs[i].event)

SendCursorUpdate ==
  Commit(emit(Cur, "cursor_move", "position"), "emit", "cursor_move")

JoinSession(sid) ==
  Commit(joinSession(Cur, sid), "joinSession", sid)

LeaveSession ==
  Commit(leaveSession(Cur), "leaveSession", NULL)

\* socket.io: the socket becomes connected and emits 'connect'
SocketConnect(w, mS, mT) ==
  /\ w.x.st = "connecting"
  /\ LET x == [w.x EXCEPT !.st = "connected"]
     IN  Step(OnConnect(Replace(Cur, w, x), [w EXCEPT !.x = x]),
              "socket:connect", NULL, mS, mT)

\* socket.io: the connection attempt fails and the socket emits 'connect_error'
SocketConnectError(w, mS, mT) ==
  /\ w.x.st = "connecting"
  /\ Step(Reject(Replace(Cur, w, Sock("closed", FALSE, FALSE)), w.x),
          "socket:connect_error", NULL, mS, mT)

\* the 10 s timer of connect() fires
ConnectTimeout(w, mS, mT) ==
  /\ w.x.pending
  /\ Step(Reject(Replace(Cur, w, Sock(w.x.st, FALSE, FALSE)), w.x),
          "timer:connect_timeout", NULL, mS, mT)

\* socket.io: a connected socket is closed by the server or the transport
SocketDisconnect(w, reason, mS, mT) ==
  /\ w.x.st = "connected"
  /\ Step(OnDisconnect(Replace(Cur, w, [w.x EXCEPT !.st = "closed"]), reason),
          "socket:disconnect", reason, mS, mT)

\* the server sends an 'error' event: handleError, then handleMessage('error')
SocketError(w) ==
  /\ w.x.st = "connected"
  /\ LET s1 == handleError(Cur)
     IN  Commit(IF s1.thrown THEN s1 ELSE handleMessage(s1, "error"),
                "socket:error", NULL)

\* the server sends an application event, with a listener for every event name
SocketMessageAnyType(w, type) ==
  /\ w.x.st = "connected"
  /\ Commit(handleMessage(Cur, type), "socket:message", type)

\* the server sends an application event: the socket has a listener only for
\* the names in WebSocketEventType
SocketMessage(w, type) ==
  /\ w.x.st = "connected"
  /\ Commit(IF type \in WebSocketEventType THEN handleMessage(Cur, type) ELSE Cur,
            "socket:message", type)

\* the server answers the ping on this.socket: handlePong() does nothing
SocketPong ==
  /\ SocketConnected(Cur)
  /\ awaitingPong
  /\ Commit([Cur EXCEPT !.awaitingPong = FALSE, !.pongMissed = FALSE],
            "socket:pong", NULL)

\* the heartbeat interval fires
HeartbeatTick ==
  /\ heartbeatTimer
  /\ Commit(IF SocketConnected(Cur)
            THEN [Cur EXCEPT !.sent = Append(@, [type |-> "ping"]),
                             !.pongMissed = Cur.awaitingPong,
                             !.awaitingPong = TRUE]
            ELSE Cur,
            "timer:heartbeat", NULL)

\* the pending reconnect timers: the one in this.reconnectTimer and the others
PendingTimers(s) ==
  (IF TimerPending(s.reconnectTimer) THEN {"held"} ELSE {})
  \cup (IF s.orphanTimers > 0 THEN {"orphan"} ELSE {})

\* a reconnect timer fires: connect(this.userId, this.sessionId).catch(...)
ReconnectTimerFire(t, mS, mT) ==
  LET s0 == IF t = "held" THEN [Cur EXCEPT !.reconnectTimer = FiredTimer]
            ELSE [Cur EXCEPT !.orphanTimers = @ - 1]
  IN  Step(connect(s0, s0.userId, s0.sessionId, TRUE),
           "timer:reconnect", s0.sessionId, mS, mT)

\* The connection manager under every connection call, socket event and timer.
Next ==
  \/ \E u \in Users, sid \in Sessions : Connect(u, sid, MaxSockets, MaxTimers)
  \/ Disconnect(MaxSockets, MaxTimers)
  \/ SendCursorUpdate
  \/ \E w \in Sockets(Cur) : SocketConnect(w, MaxSockets, MaxTimers)
  \/ \E w \in Sockets(Cur) : SocketConnectError(w, MaxSockets, MaxTimers)
  \/ \E w \in Sockets(Cur) : ConnectTimeout(w, MaxSockets, MaxTimers)
  \/ \E w \in Sockets(Cur), r \in LossReasons :
        SocketDisconnect(w, r, MaxSockets, MaxTimers)
  \/ \E w \in Sockets(Cur) : SocketError(w)
  \/ \E w \in Sockets(Cur), ty \in InboundTypes : SocketMessage(w, ty)
  \/ SocketPong
  \/ HeartbeatTick
  \/ \E t \in PendingTimers(Cur) : ReconnectTimerFire(t, MaxSockets, MaxTimers)

Spec == Init /\ [][Next]_vars

\* Sessions: the application connects, joins and leaves sessions and
\* disconnects; the socket connects and is lost.
NextSession ==
  \/ \E u \in Users, sid \in Sessions : Connect(u, sid, MaxSockets, MaxTimers)
  \/ Disconnect(MaxSockets, MaxTimers)
  \/ \E sid \in Sessions : JoinSession(sid)
  \/ LeaveSession
  \/ \E w \in Sockets(Cur) : SocketConnect(w, MaxSockets, MaxTimers)
  \/ \E w \in Sockets(Cur), r \in LossReasons :
        SocketDisconnect(w, r, MaxSockets, MaxTimers)

SpecSession == Init /\ [][NextSession]_vars

\* Teardown: the application connects (several times before the first
\* socket is up) and disconnects; sockets connect, fail and are lost,
\* connect() timers and reconnect timers fire.
NextTeardown ==
  \/ Connect("u1", "s1", MaxSockets, TeardownTimers)
  \/ Disconnect(MaxSockets, TeardownTimers)
  \/ \E w \in Sockets(Cur) : SocketConnect(w, MaxSockets, TeardownTimers)
  \/ \E w \in Sockets(Cur) : SocketConnectError(w, MaxSockets, TeardownTimers)
  \/ \E w \in Sockets(Cur) : ConnectTimeout(w, MaxSockets, TeardownTimers)
  \/ \E w \in Sockets(Cur) :
        SocketDisconnect(w, "transport close", MaxSockets, TeardownTimers)
  \/ \E t \in PendingTimers(Cur) : ReconnectTimerFire(t, MaxSockets, TeardownTimers)

SpecTeardown == Init /\ [][NextTeardown]_vars

\* The reconnection scenario: the application calls connect() for one
\* session (several times before the first socket is up), sockets connect and
\* are lost, reconnect timers fire.
NextReconnect ==
  \/ Connect("u1", "s1", BurstSockets, BurstTimers)
  \/ \E w \in Sockets(Cur) : SocketConnect(w, BurstSockets, BurstTimers)
  \/ \E w \in Sockets(Cur), r \in LossReasons :
        SocketDisconnect(w, r, BurstSockets, BurstTimers)
  \/ \E t \in PendingTimers(Cur) : ReconnectTimerFire(t, BurstSockets, BurstTimers)

SpecReconnect == Init /\ [][NextReconnect]_vars

\* The same scenario with an application that subscribes to the failure event.
NextFailure ==
  \/ NextReconnect
  \/ On("connection:failed", "h1", BurstSubs)

SpecFailure == Init /\ [][NextFailure]_vars

\* The event router: the application subscribes, unsubscribes, connects and
\* disconnects; the socket connects and delivers events.
NextRouter ==
  \/ \E e \in OnEvents, h \in HandlerIds : On(e, h, MaxSubs)
  \/ \E i \in 1..Len(subs) : Unsubscribe(i)
  \/ Connect("u1", "s1", RouterSockets, RouterTimers)
  \/ Disconnect(RouterSockets, RouterTimers)
  \/ \E w \in Sockets(Cur) : SocketConnect(w, RouterSockets, RouterTimers)
  \/ \E w \in Sockets(Cur), ty \in InboundTypes : SocketMessage(w, ty)

SpecRouter == Init /\ [][NextRouter]_vars

\* -------------------------------------------------------------------- time
\* time passes: d ms, up to maxTime
Advance(steps, maxTime) ==
  /\ \E d \in steps : clock + d <= maxTime /\ clock' = clock + d
  /\ UNCHANGED notClock

\* ------------------------------------------------------------- useThrottle
\* callback(...args)
Invoke(arg) == Append(runs, [at |-> clock, arg |-> arg])

\* the throttled function is called (with the next argument)
ThrottledCall ==
  /\ supplied < MaxCalls
  /\ supplied' = supplied + 1
  /\ LET now == clock
         timeSinceLastRun == now - lastRun
     IN  IF timeSinceLastRun >= CURSOR_UPDATE_THROTTLE
         THEN /\ runs' = Invoke(supplied')
              /\ lastRun' = now
              /\ UNCHANGED timeoutRef
         ELSE \* clearTimeout of the timer set before, then setTimeout
              /\ timeoutRef' =
                   [pending |-> TRUE,
                    due |-> now + (CURSOR_UPDATE_THROTTLE - timeSinceLastRun),
                    arg |-> supplied']
              /\ UNCHANGED <<runs, lastRun>>
  /\ UNCHANGED <<clock, notThrottle>>

\* the timer set by the throttled function fires, at its due time or later
ThrottleTimerFire ==
  /\ timeoutRef.pending
  /\ clock >= timeoutRef.due
  /\ runs' = Invoke(timeoutRef.arg)
  /\ lastRun' = clock
  /\ timeoutRef' = NoTimeout
  /\ UNCHANGED <<clock, supplied, notThrottle>>

NextThrottle ==
  \/ ThrottledCall
  \/ ThrottleTimerFire
  \/ Advance(ThrottleSteps, MaxTime)

SpecThrottle == Init /\ [][NextThrottle]_vars

\* ---------------------------------------------------- useCollaborationStore
\* A JavaScript Map is a sequence of entries [k, v] in insertion order.
MapHas(m, k) == \E i \in DOMAIN m : m[i].k = k
MapKeys(m) == {m[i].k : i \in DOMAIN m}
MapGet(m, k) == m[CHOOSE i \in DOMAIN m : m[i].k = k].v
\* an array push in place of Map.set: a second entry for a key already there
MapPush(m, k, v) == Append(m, [k |-> k, v |-> v])
\* Map.set(k, v)
MapSet(m, k, v) ==
  IF MapHas(m, k)
  THEN [i \in DOMAIN m |-> IF m[i].k = k THEN [k |-> k, v |-> v] ELSE m[i]]
  ELSE Append(m, [k |-> k, v |-> v])
MapKeeps(e, k) == e.k # k
\* Map.delete(k)
MapDelete(m, k) ==
  IF m = <<>> THEN m
  ELSE LET keep == {i \in DOMAIN m : MapKeeps(m[i], k)}
           pos(n) == CHOOSE i \in keep : Cardinality({j \in keep : j <= i}) = n
       IN  [n \in 1..Cardinality(keep) |-> m[pos(n)]]

\* the store state as one record
Store ==
  [participants |-> participants, cursorPositions |-> cursorPositions,
   typingUsers |-> typingUsers]

\* addParticipant(participant)
addParticipant(st, u, data) ==
  [st EXCEPT !.participants = MapSet(@, u, data)]

\* removeParticipant(userId) that forgets the cursor map
removeParticipantKeepsCursor(st, u) ==
  [st EXCEPT !.participants = MapDelete(@, u),
             !.typingUsers = @ \ {u}]

\* removeParticipant(userId)
removeParticipant(st, u) ==
  [st EXCEPT !.participants = MapDelete(@, u),
             !.cursorPositions = MapDelete(@, u),
             !.typingUsers = @ \ {u}]

\* updateCursorPosition(userId, position) that keeps a position already stored
updateCursorPositionFirstWins(st, u, position) ==
  [st EXCEPT !.cursorPositions =
     IF MapHas(@, u) THEN @ ELSE MapSet(@, u, position)]

\* updateCursorPosition(userId, position)
updateCursorPosition(st, u, position) ==
  [st EXCEPT !.cursorPositions = MapSet(@, u, position)]

\* setUserTyping(userId, isTyping)
setUserTyping(st, u, isTyping) ==
  [st EXCEPT !.typingUsers = IF isTyping THEN @ \cup {u} ELSE @ \ {u}]

\* clearSession()
clearSession(st) ==
  [participants |-> <<>>, cursorPositions |-> <<>>, typingUsers |-> {}]

\* set(...): one store update
StoreCommit(st, op, u, arg, hit) ==
  /\ participants' = st.participants
  /\ cursorPositions' = st.cursorPositions
  /\ typingUsers' = st.typingUsers
  /\ storeOut' = [op |-> op, user |-> u, arg |-> arg, hit |-> hit]
  /\ UNCHANGED <<clock, notStore>>

AddParticipant(u, data) ==
  /\ StoreCommit(addParticipant(Store, u, data), "addParticipant", u, data,
                 MapHas(participants, u))
  /\ UNCHANGED typedAt

RemoveParticipant(u) ==
  /\ StoreCommit(removeParticipant(Store, u), "removeParticipant", u, NULL,
                 /\ MapHas(participants, u)
                 /\ MapHas(cursorPositions, u)
                 /\ u \in typingUsers)
  /\ UNCHANGED typedAt

UpdateCursorPosition(u, position) ==
  /\ StoreCommit(updateCursorPosition(Store, u, position),
                 "updateCursorPosition", u, position,
                 MapHas(cursorPositions, u))
  /\ UNCHANGED typedAt

SetUserTyping(u, isTyping) ==
  /\ StoreCommit(setUserTyping(Store, u, isTyping), "setUserTyping", u,
                 IF isTyping THEN "true" ELSE "false", u \in typingUsers)
  /\ typedAt' = [typedAt EXCEPT ![u] = clock]

ClearSession ==
  /\ StoreCommit(clearSession(Store), "clearSession", NULL, NULL, FALSE)
  /\ UNCHANGED typedAt

NextStore ==
  \/ \E u \in StoreUsers, d \in ParticipantData : AddParticipant(u, d)
  \/ \E u \in StoreUsers : RemoveParticipant(u)
  \/ \E u \in StoreUsers, p \in Positions : UpdateCursorPosition(u, p)
  \/ \E u \in StoreUsers, b \in BOOLEAN : SetUserTyping(u, b)
  \/ ClearSession
  \/ Advance(StoreSteps, MaxStoreTime)

SpecStore == Init /\ [][NextStore]_vars

\* ------------------------------------------------------ document replicas
\* the text after the editor applied an edit: a character inserted before
\* index pos (0-based), or the character at index pos deleted
ApplyEdit(txt, op) ==
  IF op.kind = "insert"
  THEN SubSeq(txt, 1, op.pos) \o <<op.content>> \o SubSeq(txt, op.pos + 1, Len(txt))
  ELSE SubSeq(txt, 1, op.pos) \o SubSeq(txt, op.pos + 2, Len(txt))

\* the edits the user of an editor showing txt can make
Edits(txt) ==
  {[kind |-> "insert", pos |-> p, content |-> c] : p \in 0..Len(txt), c \in Typed}
  \cup {[kind |-> "delete", pos |-> p, content |-> ""] : p \in 0..(Len(txt) - 1)}

\* the user of replica r edits: handleEditorChange takes the editor's new value
LocalEdit(r) ==
  /\ Cardinality(ops) < MaxOps
  /\ \E e \in Edits(text[r]) :
       /\ text' = [text EXCEPT ![r] = ApplyEdit(@, e)]
       /\ ops' = ops \cup {[kind |-> e.kind, pos |-> e.pos, content |-> e.content,
                            userId |-> r, version |-> Cardinality(ops) + 1]}
  /\ UNCHANGED <<received, clock, notReplica>>

\* a content_change of the other replica arrives at r: handleMessage finds no
\* handler, because the application subscribes to nothing
ReceiveRemote(r) ==
  /\ \E op \in ops :
       /\ op.userId # r
       /\ op \notin received[r]
       /\ received' = [received EXCEPT ![r] = @ \cup {op}]
  /\ UNCHANGED <<text, ops, clock, notReplica>>

NextReplica ==
  \/ \E r \in Replicas : LocalEdit(r)
  \/ \E r \in Replicas : ReceiveRemote(r)

SpecReplica == Init /\ [][NextReplica]_vars

\* -------------------------------------------------------------- CodeEditor
\* the component's props and state and the file system, as one record
Editor ==
  [files |-> files, currentFile |-> currentFile, content |-> content,
   hasUnsavedChanges |-> hasUnsavedChanges, saveTimeout |-> saveTimeout]

\* the dependencies of the auto-save effect
AutoSaveDeps(s) == <<s.content, s.hasUnsavedChanges, s.currentFile>>

\* the auto-save effect of the render with state s, after the render with
\* state old: the cleanup of the effect before it clears the timer, then the
\* effect sets a timer closing over this render's file and content
autoSaveEffect(old, s, now) ==
  IF AutoSaveDeps(s) = AutoSaveDeps(old)
  THEN s.saveTimeout
  ELSE IF s.hasUnsavedChanges /\ s.currentFile # NoFile
       THEN [pending |-> TRUE, file |-> s.currentFile, content |-> s.content,
             due |-> now + AutoSaveDelay]
       ELSE NoSave

\* React commits the render with state s after the render with state old
\* and runs the effects whose dependencies changed; the state updates the
\* first effect makes cause one more render
RECURSIVE Render(_, _, _)
Render(old, s, now) ==
  LET timed == [s EXCEPT !.saveTimeout = autoSaveEffect(old, s, now)]
      next == IF s.currentFile # old.currentFile /\ s.currentFile # NoFile
              THEN [timed EXCEPT !.content = s.files[s.currentFile],
                                 !.hasUnsavedChanges = FALSE]
              ELSE timed
  IN  IF next = timed THEN timed ELSE Render(timed, next, now)

EditorCommit(s, op) ==
  /\ files' = s.files
  /\ currentFile' = s.currentFile
  /\ content' = s.content
  /\ hasUnsavedChanges' = s.hasUnsavedChanges
  /\ saveTimeout' = s.saveTimeout
  /\ editorOut' = op
  /\ UNCHANGED <<clock, notEditor>>

\* the user opens a file in the explorer or clicks its tab
SelectFile(f) ==
  /\ f # currentFile
  /\ EditorCommit(Render(Editor, [Editor EXCEPT !.currentFile = f], clock), "select")
  /\ UNCHANGED <<saveCommand, edited>>

\* the Monaco editor is ready: onMount registers the Ctrl+S command, which
\* closes over the file and the content of the render that passed onMount
handleEditorMount ==
  /\ currentFile # NoFile
  /\ ~saveCommand.set
  /\ saveCommand' = [set |-> TRUE, file |-> currentFile, content |-> content]
  /\ editorOut' = "mount"
  /\ UNCHANGED <<files, currentFile, content, hasUnsavedChanges, saveTimeout,
                 edited, clock, notEditor>>

\* the user types: the editor now shows value
handleEditorChange(value) ==
  /\ saveCommand.set
  /\ value # content
  /\ edited' = [edited EXCEPT ![currentFile] = value]
  /\ EditorCommit(Render(Editor, [Editor EXCEPT !.content = value,
                                                !.hasUnsavedChanges = TRUE], clock),
                  "change")
  /\ UNCHANGED saveCommand

\* fileSystemService.updateFileContent(id, content); setHasUnsavedChanges(false)
save(s, id, newContent) ==
  [s EXCEPT !.files[id] = newContent, !.hasUnsavedChanges = FALSE]

\* the auto-save timer fires, at its due time or later
SaveTimerFire ==
  /\ saveTimeout.pending
  /\ clock >= saveTimeout.due
  /\ LET fired == [Editor EXCEPT !.saveTimeout = NoSave]
     IN EditorCommit(Render(fired, save(fired, saveTimeout.file, saveTimeout.content),
                            clock), "auto_save")
  /\ UNCHANGED <<saveCommand, edited>>

\* the user presses Ctrl+S: the command registered at mount runs
PressCtrlS ==
  /\ saveCommand.set
  /\ EditorCommit(Render(Editor, save(Editor, saveCommand.file, saveCommand.content),
                         clock), "ctrl_s")
  /\ UNCHANGED <<saveCommand, edited>>

NextAutoSave ==
  \/ \E f \in Files : SelectFile(f)
  \/ handleEditorMount
  \/ \E v \in EditorValues : handleEditorChange(v)
  \/ SaveTimerFire
  \/ Advance(EditorSteps, MaxEditorTime)

\* the editor used without the save shortcut
SpecAutoSave == Init /\ [][NextAutoSave]_vars

NextEditor ==
  \/ NextAutoSave
  \/ PressCtrlS

SpecEditor == Init /\ [][NextEditor]_vars

\* ------------------------------------------------------------ editor store
\* the store's file state as one record
EditorStore == [openFiles |-> openFiles, currentFile |-> currentDoc]

\* updateFileContent(fileId, content)
updateFileContent(s, fileId, newContent) ==
  [s EXCEPT !.openFiles = [i \in DOMAIN @ |->
                             IF @[i].id = fileId
                             THEN [@[i] EXCEPT !.content = newContent]
                             ELSE @[i]],
            !.currentFile = IF @.id = fileId
                            THEN [@ EXCEPT !.content = newContent] ELSE @]

\* openFile(file)
openFile(s, file) ==
  LET isAlreadyOpen == \E i \in DOMAIN s.openFiles : s.openFiles[i].id = file.id
  IN  [s EXCEPT !.openFiles = IF isAlreadyOpen THEN @ ELSE Append(@, file),
                !.currentFile = file]

closeFileMakesFirstCurrent(s, fileId) ==
  LET Keep(f) == f.id # fileId
      filteredFiles == SelectSeq(s.openFiles, Keep)
  IN  [s EXCEPT !.openFiles = filteredFiles,
                !.currentFile =
                  IF @.id = fileId
                  THEN IF filteredFiles = <<>> THEN NoDoc ELSE filteredFiles[1]
                  ELSE @]

\* closeFile(fileId)
closeFile(s, fileId) ==
  LET Keep(f) == f.id # fileId
      filteredFiles == SelectSeq(s.openFiles, Keep)
  IN  [s EXCEPT !.openFiles = filteredFiles,
                !.currentFile =
                  IF @.id = fileId
                  THEN IF filteredFiles = <<>> THEN NoDoc
                       ELSE filteredFiles[Len(filteredFiles)]
                  ELSE @]

EditorStoreCommit(s, op, id) ==
  /\ openFiles' = s.openFiles
  /\ currentDoc' = s.currentFile
  /\ editorStoreOut' = [op |-> op, id |-> id]
  /\ UNCHANGED <<clock, notEditorStore>>

OpenFile(file) == EditorStoreCommit(openFile(EditorStore, file), "openFile", file.id)
CloseFile(id) == EditorStoreCommit(closeFile(EditorStore, id), "closeFile", id)
UpdateFileContent(id, c) ==
  EditorStoreCommit(updateFileContent(EditorStore, id, c), "updateFileContent", id)

NextEditorStore ==
  \/ \E file \in Docs : OpenFile(file)
  \/ \E id \in DocIds : CloseFile(id)
  \/ \E id \in DocIds, c \in DocContents : UpdateFileContent(id, c)

SpecEditorStore == Init /\ [][NextEditorStore]_vars

\* ------------------------------------------------------------- useDebounce
useDebounceEffectNoCleanup(timers, value, now) ==
  timers \cup {[due |-> now + DebounceDelay, value |-> value]}

\* the hook's effect for a new value: the cleanup of the effect before it
\* clears that effect's timer, then a timer for the new value is set
useDebounceEffect(timers, value, now) ==
  {[due |-> now + DebounceDelay, value |-> value]}

\* the component renders with the next value (the values are numbered, so
\* that no two are equal); the first render is Init
DebounceRerender ==
  /\ dbValue < MaxChanges
  /\ dbValue' = dbValue + 1
  /\ dbChangedAt' = clock
  /\ dbTimers' = useDebounceEffect(dbTimers, dbValue', clock)
  /\ UNCHANGED <<debouncedValue, clock, notDebounce>>

\* a timer of the hook fires, at its due time or later: setDebouncedValue
DebounceTimerFire ==
  /\ \E tm \in dbTimers :
       /\ clock >= tm.due
       /\ debouncedValue' = tm.value
       /\ dbTimers' = dbTimers \ {tm}
  /\ UNCHANGED <<dbValue, dbChangedAt, clock, notDebounce>>

NextDebounce ==
  \/ DebounceRerender
  \/ DebounceTimerFire
  \/ Advance(DebounceSteps, MaxDebounceTime)

SpecDebounce == Init /\ [][NextDebounce]_vars

\* ------------------------------------------------------------- API service
\* the service's fields and the requests, as one record; resent collects the
\* requests the step hands to the axios instance again, in order
ApiCur ==
  [reqs |-> reqs, isRefreshing |-> isRefreshing, requestQueue |-> requestQueue,
   hasRefreshToken |-> hasRefreshToken, resent |-> <<>>]

Range(q) == {q[i] : i \in DOMAIN q}

shouldRetryRequestInclusive(status, retryCount) ==
  (status = "network" \/ status = "500") /\ retryCount <= RETRY_ATTEMPTS

\* shouldRetryRequest: a network error or a 5xx, and retries left
shouldRetryRequest(status, retryCount) ==
  (status = "network" \/ status = "500") /\ retryCount < RETRY_ATTEMPTS

\* the catch and finally blocks of the 401 branch: clearQueue,
\* handleAuthFailure, the request of the 401 is rejected
refreshFailed(s, by) ==
  [s EXCEPT !.requestQueue = <<>>,
            !.hasRefreshToken = FALSE,
            !.reqs[by] = Settled("rejected"),
            !.isRefreshing = FALSE]

\* the try and finally blocks after refreshToken() returned: processQueue
\* re-sends the queued requests in queue order, then the request of the 401
\* is sent again
refreshSucceeded(s, by) ==
  [s EXCEPT !.reqs = [id \in DOMAIN @ |->
                        IF id = by \/ id \in Range(s.requestQueue)
                        THEN [@[id] EXCEPT !.st = "sent"]
                        ELSE @[id]],
            !.resent = s.requestQueue \o <<by>>,
            !.requestQueue = <<>>,
            !.isRefreshing = FALSE]

FreeRefreshIds(s) == {f \in RefreshIds : s.reqs[f].st = "idle"}

\* refreshToken up to its await: throws without a refresh token, otherwise
\* posts /auth/refresh through the same axios instance
refreshToken(s, by) ==
  IF ~s.hasRefreshToken
  THEN refreshFailed(s, by)
  ELSE LET f == CHOOSE x \in FreeRefreshIds(s) : \A y \in FreeRefreshIds(s) : x >= y
       IN [s EXCEPT !.reqs[f] = [NewReq EXCEPT !.st = "sent", !.by = by],
                    !.reqs[by].st = "refreshing"]

\* the promise of request id is rejected; the promise of a refresh request
\* is the one refreshToken awaits
reject(s, id) ==
  IF id \in RefreshIds
  THEN refreshFailed([s EXCEPT !.reqs[id] = NewReq], s.reqs[id].by)
  ELSE [s EXCEPT !.reqs[id] = Settled("rejected")]

\* the promise of request id is resolved with the response
resolve(s, id, status) ==
  IF id \in RefreshIds
  THEN IF status = RefreshRefused
       THEN refreshFailed([s EXCEPT !.reqs[id] = NewReq], s.reqs[id].by)
       ELSE refreshSucceeded([s EXCEPT !.reqs[id] = NewReq], s.reqs[id].by)
  ELSE [s EXCEPT !.reqs[id] = Settled("resolved")]

on401AlwaysRefresh(s, id) ==
  refreshToken([s EXCEPT !.reqs[id].retry = TRUE,
                         !.reqs[id].triggered = @ + 1,
                         !.isRefreshing = TRUE], id)

\* the 401 branch of handleResponseError for a request not yet marked _retry
on401(s, id) ==
  IF s.isRefreshing
  THEN [s EXCEPT !.reqs[id].st = "queued",
                 !.requestQueue = Append(@, id)]
  ELSE refreshToken([s EXCEPT !.reqs[id].retry = TRUE,
                              !.reqs[id].triggered = @ + 1,
                              !.isRefreshing = TRUE], id)

\* handleResponseError for the error response (or the missing response) of
\* request id
handleResponseError(s, id, status) ==
  LET q == s.reqs[id]
  IN IF status = "401" /\ ~q.retry
     THEN on401(s, id)
     ELSE IF shouldRetryRequest(status, q.retryCount)
          THEN [s EXCEPT !.reqs[id].retryCount = @ + 1,
                         !.reqs[id].st = "delaying",
                         !.reqs[id].delay = RETRY_DELAY * (q.retryCount + 1)]
          ELSE reject(s, id)

ApiCommit(s, op, id, status) ==
  /\ reqs' = s.reqs
  /\ isRefreshing' = s.isRefreshing
  /\ requestQueue' = s.requestQueue
  /\ hasRefreshToken' = s.hasRefreshToken
  /\ apiOut' = [op |-> op, req |-> id, status |-> status, resent |-> s.resent,
                delay |-> IF s.reqs[id].st = "delaying" THEN s.reqs[id].delay ELSE 0,
                retryCount |-> reqs[id].retryCount]
  /\ UNCHANGED <<clock, notApi>>

\* the application makes request id through the axios instance
ApiSend(id) ==
  /\ reqs[id].st = "idle"
  /\ ApiCommit([ApiCur EXCEPT !.reqs[id].st = "sent"], "send", id, NULL)

\* the answer to request id arrives (status "network": no answer), and the
\* response interceptor runs up to its next await
ApiRespond(id, status) ==
  /\ reqs[id].st = "sent"
  /\ status = RefreshRefused => id \in RefreshIds
  /\ status = "401" => FreeRefreshIds(ApiCur) # {}
  /\ status \in {"500", "network"} => id \in Flaky
  /\ ApiCommit(IF status \in {"200", RefreshRefused}
               THEN resolve(ApiCur, id, status)
               ELSE handleResponseError(ApiCur, id, status),
               "response", id, status)

\* the delay before a retry of request id is over: the request is sent again
ApiDelayDone(id) ==
  /\ reqs[id].st = "delaying"
  /\ ApiCommit([ApiCur EXCEPT !.reqs[id].st = "sent",
                              !.reqs[id].retries = @ + 1,
                              !.reqs[id].delay = 0,
                              !.resent = <<id>>], "retry", id, NULL)

NextApi ==
  \/ \E id \in ReqIds : ApiSend(id)
  \/ \E id \in ReqIds \cup RefreshIds :
       \E status \in Statuses \cup {RefreshRefused} : ApiRespond(id, status)
  \/ \E id \in ReqIds \cup RefreshIds : ApiDelayDone(id)

SpecApi == Init /\ [][NextApi]_vars

\* ------------------------------------------------------------------ claims
\* the last step sent an envelope of this type to the server
Sent(type) == \E i \in DOMAIN out.sent : out.sent[i].type = type
\* the handlers handleMessage would invoke for an event
Handlers(event) == handleMessage(Cur, event).dispatched
PendingCount == TimersPending(Cur)
AliveCount == SocketsAlive(Cur)

\* C1: after a 'disconnect' event whose reason is not the server's, the k-th
\* reconnect attempt is scheduled with delay RECONNECT_INTERVAL * 2^(k-1), and
\* a reconnect timer that fires calls connect with the stored ids.
C1_UnexpectedLossRetriesWithBackoff ==
  [][ /\ ( /\ out'.op = "socket:disconnect"
           /\ out'.arg # ServerDisconnect
           /\ reconnectAttempts < MAX_RECONNECT_ATTEMPTS
           /\ userId # NULL /\ sessionId # NULL )
         => /\ reconnectAttempts' = reconnectAttempts + 1
            /\ out'.scheduled = RECONNECT_INTERVAL * Pow2(reconnectAttempts)
            /\ reconnectTimer' = PendingTimer
      /\ out'.op = "timer:reconnect"
         => /\ userId' = userId /\ sessionId' = sessionId
            /\ \/ out'.settled = "resolved"
               \/ socket'.st = "connecting" /\ socket'.catch
    ]_vars

C3_FailureReachesSubscribers ==
  (reconnectAttempts >= MAX_RECONNECT_ATTEMPTS /\ Sent("connection:failed"))
  => \A d \in Handlers("connection:failed") : d \in out.dispatched

\* C4: a 'disconnect' event with reason 'io server disconnect' schedules no
\* reconnect timer, leaves reconnectAttempts as it was and calls no connect.
C4_ServerDisconnectNeverReconnects ==
  [][ (out'.op = "socket:disconnect" /\ out'.arg = ServerDisconnect)
      => /\ out'.scheduled = 0
         /\ reconnectAttempts' = reconnectAttempts
         /\ reconnectTimer' = reconnectTimer
         /\ orphanTimers' = orphanTimers
         /\ AliveCount' <= AliveCount
         /\ socket'.st # "connecting" \/ socket' = socket
         /\ out'.settled = "none"
    ]_vars

\* a server-initiated disconnect was handled up to the check of its reason
C4_Witness ==
  /\ out.op = "socket:disconnect"
  /\ out.arg = ServerDisconnect
  /\ ~out.thrown
  /\ Sent("connection:lost")

\* C5: disconnect() completes without error in every state, leaves no socket,
\* no reconnect timer, no heartbeat, an empty registry and isConnected false,
\* and a second call changes nothing.
ServiceFields ==
  <<socket, reconnectAttempts, reconnectTimer, orphanTimers, heartbeatTimer,
    isConnected, sessionId, userId, registry>>
C5_DisconnectCleansUpIdempotent ==
  [][ out'.op = "disconnect"
      => /\ ~out'.thrown
         /\ socket' = NoSocket
         /\ reconnectTimer' = NoTimer
         /\ PendingCount' = 0
         /\ ~heartbeatTimer'
         /\ ~isConnected'
         /\ \A e \in DOMAIN registry' : registry'[e] = 0
         /\ out.op = "disconnect" => ServiceFields' = ServiceFields
    ]_vars

\* C6: a connect() promise is resolved by the socket's 'connect' event or at
\* once by a connect() call, and then the service is connected,
\* reconnectAttempts is 0 and the heartbeat runs; it is rejected by the 10 s
\* timeout or by 'connect_error'.
C6_ConnectPromiseContract ==
  /\ out.settled = "resolved"
     => /\ out.op \in {"socket:connect", "connect", "timer:reconnect"}
        /\ Connected(Cur)
        /\ reconnectAttempts = 0
        /\ heartbeatTimer
  /\ out.settled = "rejected"
     => out.op \in {"timer:connect_timeout", "socket:connect_error"}

\* C7: a connect() promise that was pending when disconnect() was called is
\* not resolved afterwards.
C7_PendingConnectNotResolvedAfterDisconnect ==
  out.settled = "resolved" => ~out.cut

\* C8: a heartbeat tick of a connected service sends a ping, and the service
\* is no longer connected once a ping has gone unanswered for a whole
\* heartbeat interval.
C8_MissedPongIsConnectionLoss ==
  /\ (out.op = "timer:heartbeat" /\ SocketConnected(Cur)) => Sent("ping")
  /\ pongMissed => ~Connected(Cur)

\* C9: the service goes from not connected to connected only in the step in
\* which a 'connect' event resolves a connect() promise (the claim's "never
\* reported connected without a preceding successful connect").
ServiceConnected == Connected(Cur)
C9_ConnectedOnlyAfterSuccessfulConnect ==
  [][ (~ServiceConnected /\ ServiceConnected')
      => (out'.op = "socket:connect" /\ out'.settled = "resolved") ]_vars

\* C10: a handler registered by an on() call that was not unsubscribed by its
\* own closure (nor cleared by disconnect()) is dispatched for its event,
\* whatever other unsubscribe functions were called and however often; the
\* handler function is one no other on() call used for that event.
OnlyUse(i) ==
  \A j \in DOMAIN subs :
    j # i => (subs[j].event # subs[i].event \/ subs[j].h # subs[i].h)
C10_UnsubscribeRemovesOnlyItsHandler ==
  \A i \in DOMAIN subs :
    (subs[i].active /\ OnlyUse(i))
    => <<subs[i].event, subs[i].h>> \in Handlers(subs[i].event)

\* C11: emit() on a service whose socket is not connected throws, sends
\* nothing and changes no field; otherwise it sends exactly one envelope with
\* the event type, the payload, the current sessionId and userId ('' for
\* null) and a timestamp, and changes no field either.
ServiceState ==
  <<socket, stale, reconnectAttempts, reconnectTimer, orphanTimers,
    heartbeatTimer, isConnected, sessionId, userId, registry, sets, subs,
    awaitingPong, pongMissed>>
C11_EmitFailsFastOrSendsOneEnvelope ==
  [][ out'.op = "emit"
      => /\ ServiceState' = ServiceState
         /\ IF socket.st # "connected"
            THEN out'.thrown /\ out'.sent = <<>>
            ELSE /\ ~out'.thrown
                 /\ out'.sent =
                      << [type |-> out'.arg, payload |-> "position",
                          sessionId |-> IF sessionId = NULL THEN "" ELSE sessionId,
                          userId |-> IF userId = NULL THEN "" ELSE userId,
                          timestamp |-> "now"] >>
    ]_vars

\* emit() sent an envelope that carries a session and a user
C11_Witness ==
  /\ out.op = "emit"
  /\ ~out.thrown
  /\ Len(out.sent) = 1
  /\ out.sent[1].sessionId \in Sessions
  /\ out.sent[1].userId \in Users

\* C12: an inbound message invokes every handler present in the registry for
\* its event type, the handlers that throw and the others alike, and no
\* exception leaves the dispatcher.
Registered(event) ==
  IF event \notin DOMAIN registry \/ registry[event] = 0 THEN {}
  ELSE sets[registry[event]]
C12_DispatchIsolatesHandlerFailures ==
  [][ (out'.op = "socket:message" /\ out'.arg \in WebSocketEventType)
      => /\ out'.dispatched = {<<out'.arg, h>> : h \in Registered(out'.arg)}
         /\ ~out'.thrown
    ]_vars

\* a message was dispatched to a handler that throws and to one that does not
C12_Witness ==
  /\ out.op = "socket:message"
  /\ \E h \in HandlerIds : Throws(h) /\ <<out.arg, h>> \in out.dispatched
  /\ \E h \in HandlerIds : ~Throws(h) /\ <<out.arg, h>> \in out.dispatched

IsOpen(x) == x.st \in {"connecting", "connected"}
OpenSockets ==
  (IF IsOpen(socket) THEN 1 ELSE 0)
  + BagCardinality([x \in {y \in BagToSet(stale) : IsOpen(y)} |-> CopiesIn(x, stale)])
C14_AtMostOneOpenSocket == OpenSockets <= 1

\* C15: two invocations of the throttled callback are never less than the
\* throttle delay apart.
C15_InvocationsAtLeastDelayApart ==
  \A i \in 1..(Len(runs) - 1) :
    runs[i + 1].at - runs[i].at >= CURSOR_UPDATE_THROTTLE

\* C16: the callback never gets an older value after a newer one, and once no
\* timer is pending the last value it got is the last value supplied.
C16_LastSuppliedValueDeliveredLast ==
  /\ \A i \in 1..(Len(runs) - 1) : runs[i].arg < runs[i + 1].arg
  /\ (supplied > 0 /\ ~timeoutRef.pending)
     => (runs # <<>> /\ runs[Len(runs)].arg = supplied)

\* the entries of a Map, and how many it holds for a key
Entries(m) == {m[i] : i \in DOMAIN m}
Count(m, k) == Cardinality({i \in DOMAIN m : m[i].k = k})

\* C17: updateCursorPosition(u, p) leaves u with the single cursor p, and
\* leaves the cursors of the other users, the participants and the typing set
\* as they were.
C17_CursorLastWriteWins ==
  [][ storeOut'.op = "updateCursorPosition"
      => /\ Count(cursorPositions', storeOut'.user) = 1
         /\ [k |-> storeOut'.user, v |-> storeOut'.arg] \in Entries(cursorPositions')
         /\ {e \in Entries(cursorPositions') : e.k # storeOut'.user}
              = {e \in Entries(cursorPositions) : e.k # storeOut'.user}
         /\ participants' = participants
         /\ typingUsers' = typingUsers
    ]_vars

\* a cursor update replaced the user's cursor while another user has a
\* cursor, somebody is typing and there are participants
C17_Witness ==
  /\ storeOut.op = "updateCursorPosition"
  /\ storeOut.hit
  /\ Len(cursorPositions) = 2
  /\ typingUsers # {}
  /\ participants # <<>>

\* C18: a user is in the typing set only while the last typing event for
\* that user is at most TYPING_INDICATOR_TIMEOUT old.
C18_TypingIndicatorExpires ==
  \A u \in typingUsers : clock - typedAt[u] <= TYPING_INDICATOR_TIMEOUT

\* C19: removeParticipant(u) takes u out of the participants, the cursor
\* positions and the typing set in the one step it makes, and leaves the
\* entries of the other users as they were.
C19_RemoveParticipantAtomic ==
  [][ storeOut'.op = "removeParticipant"
      => /\ Count(participants', storeOut'.user) = 0
         /\ Count(cursorPositions', storeOut'.user) = 0
         /\ storeOut'.user \notin typingUsers'
         /\ Entries(participants')
              = {e \in Entries(participants) : e.k # storeOut'.user}
         /\ Entries(cursorPositions')
              = {e \in Entries(cursorPositions) : e.k # storeOut'.user}
         /\ typingUsers' = typingUsers \ {storeOut'.user}
    ]_vars

\* a user present in all three collections was removed while another user
\* stays in all three
C19_Witness ==
  /\ storeOut.op = "removeParticipant"
  /\ storeOut.hit
  /\ participants # <<>>
  /\ cursorPositions # <<>>
  /\ typingUsers # {}

\* C20: the participants never hold two entries for one userId, adding a
\* participant leaves exactly the given entry for its id, and removing a user
\* twice, or removing an absent user, gives the state one removal gives.
Absent(st, u) ==
  /\ ~MapHas(st.participants, u)
  /\ ~MapHas(st.cursorPositions, u)
  /\ u \notin st.typingUsers
C20_NoDuplicateParticipantsIdempotentRemoval ==
  [][ /\ \A u \in StoreUsers : Count(participants', u) <= 1
      /\ (storeOut'.op = "addParticipant" /\ clock' = clock)
         => /\ [k |-> storeOut'.user, v |-> storeOut'.arg] \in Entries(participants')
            /\ Len(participants') =
                 Len(participants) + (IF storeOut'.hit THEN 0 ELSE 1)
      /\ \A u \in StoreUsers :
           LET once == removeParticipant(Store, u)
           IN  /\ removeParticipant(once, u) = once
               /\ Absent(Store, u) => once = Store
    ]_vars

\* a participant was added under an id that was already present
C20_Witness ==
  /\ storeOut.op = "addParticipant"
  /\ storeOut.hit
  /\ Len(participants) = 2

\* C21: a join_session event is sent over a connected socket and names the
\* session the service then holds, and a leave_session event is sent only
\* for a session whose join_session was sent before (and not left since).
C21_LeaveOnlyAfterJoin ==
  [][ \A i \in DOMAIN out'.sent :
        /\ out'.sent[i].type = "join_session"
           => /\ socket.st = "connected"
              /\ out'.sent[i].payload = sessionId'
        /\ out'.sent[i].type = "leave_session"
           => out'.sent[i].payload = joined
    ]_vars

\* C22: two replicas that have received all of each other's operations show
\* the same text.
Exchanged == \A r \in Replicas : received[r] = {op \in ops : op.userId # r}
C22_ReplicasConverge ==
  Exchanged => \A r1, r2 \in Replicas : text[r1] = text[r2]

\* C23: a remote operation whose position lies beyond the end of the
\* replica's text is applied at the nearest valid position.
Min(a, b) == IF a < b THEN a ELSE b
Clamped(txt, op) ==
  [op EXCEPT !.pos = IF op.kind = "insert" THEN Min(op.pos, Len(txt))
                     ELSE Min(op.pos, Len(txt) - 1)]
BeyondBounds(txt, op) ==
  op.pos > (IF op.kind = "insert" THEN Len(txt) ELSE Len(txt) - 1)
C23_OutOfBoundsPositionClamped ==
  [][ \A r \in Replicas : \A op \in received'[r] \ received[r] :
        (BeyondBounds(text[r], op) /\ text[r] # <<>>)
        => text'[r] = ApplyEdit(text[r], Clamped(text[r], op))
    ]_vars

\* the token refreshes in flight: refresh requests posted and not settled
RefreshesInFlight == {f \in RefreshIds : reqs[f].st # "idle"}
\* the step took the answer to the refresh request and the refresh succeeded
RefreshSucceeds ==
  /\ apiOut'.op = "response"
  /\ apiOut'.req \in RefreshIds
  /\ apiOut'.status = "200"

\* C24: a 401 for a request not yet marked as retried starts a token refresh
\* when none is in progress, and the request is sent again once when the
\* refresh succeeds; when a refresh is in progress the request is queued
\* behind the ones already waiting; the queued requests are sent again in
\* queue order, and only when the refresh succeeds; there is never more than
\* one refresh in flight and a request starts at most one refresh.
C24_TokenRefreshQueuesAndResends ==
  /\ [](Cardinality(RefreshesInFlight) <= 1)
  /\ [](\A id \in DOMAIN reqs : reqs[id].triggered <= 1)
  /\ [][ LET id == apiOut'.req IN
         /\ (apiOut'.op = "response" /\ apiOut'.status = "401" /\ ~reqs[id].retry)
            => IF isRefreshing
               THEN /\ requestQueue' = Append(requestQueue, id)
                    /\ reqs'[id].st = "queued"
                    /\ RefreshesInFlight' = RefreshesInFlight
                    /\ apiOut'.resent = <<>>
               ELSE IF hasRefreshToken
                    THEN /\ reqs'[id].st = "refreshing"
                         /\ reqs'[id].triggered = reqs[id].triggered + 1
                         /\ \E f \in RefreshesInFlight' :
                              reqs'[f].by = id /\ reqs'[f].st = "sent"
                    ELSE reqs'[id].st = "rejected"
         /\ RefreshSucceeds
            => /\ apiOut'.resent = requestQueue \o <<reqs[id].by>>
               /\ \A i \in DOMAIN apiOut'.resent :
                    /\ reqs'[apiOut'.resent[i]].st = "sent"
                    /\ \A j \in DOMAIN apiOut'.resent :
                         apiOut'.resent[i] = apiOut'.resent[j] => i = j
               /\ requestQueue' = <<>>
         /\ \A q \in DOMAIN reqs :
              (reqs[q].st \in {"queued", "refreshing"} /\ reqs'[q].st = "sent")
              => RefreshSucceeds
     ]_vars

\* a refresh succeeded while two requests were waiting in the queue: both
\* and the request that started the refresh were sent again
C24_Witness ==
  /\ apiOut.op = "response"
  /\ apiOut.req \in RefreshIds
  /\ apiOut.status = "200"
  /\ Len(apiOut.resent) = 3
  /\ \A i \in DOMAIN apiOut.resent : reqs[apiOut.resent[i]].st = "sent"

\* the promise of the request was rejected in the step; the rejection of a
\* refresh request is the failure of the refresh
RejectedInStep(id) ==
  IF id \in RefreshIds
  THEN reqs'[id].st = "idle" /\ reqs'[reqs[id].by].st = "rejected"
  ELSE reqs'[id].st = "rejected"

\* C25: a request is sent again after a failure at most RETRY_ATTEMPTS
\* times; a network error or a 5xx answer to a request sent again fewer
\* than RETRY_ATTEMPTS times starts a delay of RETRY_DELAY times the number
\* of the coming retry, after which the request is sent again; after
\* RETRY_ATTEMPTS retries, and for any other error status outside the 401
\* refresh path, the request is rejected and not sent again.
C25_RetryBoundedWithBackoff ==
  /\ [](\A id \in DOMAIN reqs : reqs[id].retries <= RETRY_ATTEMPTS)
  /\ [][ LET id == apiOut'.req
             status == apiOut'.status IN
         /\ ( /\ apiOut'.op = "response"
              /\ status \notin {"200", RefreshRefused}
              /\ ~(status = "401" /\ ~reqs[id].retry) )
            => IF status \in {"500", "network"} /\ reqs[id].retries < RETRY_ATTEMPTS
               THEN /\ reqs'[id].st = "delaying"
                    /\ apiOut'.delay = RETRY_DELAY * (reqs[id].retries + 1)
                    /\ apiOut'.resent = <<>>
               ELSE /\ RejectedInStep(id)
                    /\ apiOut'.resent = <<>>
         /\ apiOut'.op = "retry"
            => /\ reqs[id].st = "delaying"
               /\ reqs'[id].st = "sent"
               /\ reqs'[id].retries = reqs[id].retries + 1
     ]_vars

\* a request that was retried RETRY_ATTEMPTS times failed once more and was
\* rejected
C25_Witness ==
  /\ apiOut.op = "response"
  /\ apiOut.status \in {"500", "network"}
  /\ apiOut.req \in ReqIds
  /\ apiOut.retryCount = RETRY_ATTEMPTS
  /\ reqs[apiOut.req].st = "rejected"

\* C26: useDebounce returns the initial value at once; the returned value
\* changes only to the value passed last, and only when that value has been
\* passed for at least the delay, so a value replaced before its delay was
\* over is never returned.
C26_DebouncedValueFollowsLastValueAfterDelay ==
  /\ [](clock < DebounceDelay => debouncedValue = 0)
  /\ [][ debouncedValue' # debouncedValue
         => /\ debouncedValue' = dbValue
            /\ clock - dbChangedAt >= DebounceDelay ]_vars

\* the value changed twice before the first delay was over, so the first
\* change was replaced within its delay; the hook returns the second value
C26_Witness ==
  /\ dbValue = 2
  /\ dbChangedAt < DebounceDelay
  /\ debouncedValue = 2
  /\ dbTimers = {}

\* C27: no content reaches a file other than the one it was typed into, and
\* once no auto-save is pending the unsaved-changes flag is false and every
\* file holds the content last typed into it.
C27_AutoSavePersistsEdits ==
  /\ [][ \A f \in Files : files'[f] # files[f] => files'[f] = edited[f] ]_vars
  /\ [](~saveTimeout.pending
        => /\ ~hasUnsavedChanges
           /\ \A f \in Files : edited[f] # NULL => files[f] = edited[f])

\* C28: pressing Ctrl+S writes the content the editor shows to the file
\* that is open and clears the unsaved-changes flag.
C28_SaveShortcutSavesShownContent ==
  [][ editorOut' = "ctrl_s"
      => /\ files'[currentFile] = content
         /\ ~hasUnsavedChanges' ]_vars

\* C29: after disconnect() and before the next connect() call of the
\* application (this.socket is null exactly then), no reconnect timer fires
\* and calls connect().
C29_NoAutomaticConnectAfterDisconnect ==
  [][ out'.op = "timer:reconnect" => socket # NoSocket ]_vars

\* every socket still connecting belongs to a connect() call whose promise
\* the 10 s timer has rejected
OnlyTimedOutConnecting ==
  \A w \in Sockets(Cur) : w.x.st = "connecting" => ~w.x.pending

\* C30: a 'connect' event of a socket whose connect() promise the timeout
\* has rejected leaves isConnected, reconnectAttempts and the heartbeat as
\* they were.
C30_TimedOutConnectHasNoLaterEffect ==
  [][ (OnlyTimedOutConnecting /\ out'.op = "socket:connect")
      => /\ isConnected' = isConnected
         /\ reconnectAttempts' = reconnectAttempts
         /\ heartbeatTimer' = heartbeatTimer ]_vars

\* C31: reconnectAttempts is always between 0 and MAX_RECONNECT_ATTEMPTS,
\* and it is 0 after every step in which a socket connected.
C31_ReconnectAttemptsInRange ==
  /\ [](reconnectAttempts \in 0..MAX_RECONNECT_ATTEMPTS)
  /\ [][ out'.op = "socket:connect" => reconnectAttempts' = 0 ]_vars

\* the socket opened by a reconnect timer connected and resolved the timer's
\* connect(): the attempts counted before are back to 0
C31_Witness ==
  /\ out.op = "socket:connect"
  /\ out.settled = "resolved"
  /\ reconnectTimer = FiredTimer
  /\ reconnectAttempts = 0

\* C32: joinSession and leaveSession called while the socket is not
\* connected throw and leave this.sessionId as it was.
C32_SessionCallsFailCleanlyWhenNotConnected ==
  [][ (out'.op \in {"joinSession", "leaveSession"} /\ ~SocketConnected(Cur))
      => /\ out'.thrown
         /\ sessionId' = sessionId ]_vars

\* C33: every user with a cursor position and every user in the typing set
\* is a participant.
C33_CursorAndTypingOnlyForParticipants ==
  /\ \A e \in Entries(cursorPositions) : MapHas(participants, e.k)
  /\ \A u \in typingUsers : MapHas(participants, u)

\* C34: a request whose promise waits for the token refresh is one the
\* queue still holds (so that the end of the refresh settles it), and the
\* step in which a refresh fails rejects every request that was queued.
C34_QueuedRequestsSettle ==
  /\ [](\A id \in DOMAIN reqs :
          reqs[id].st = "queued" => id \in Range(requestQueue))
  /\ [][ (requestQueue # <<>> /\ requestQueue' = <<>> /\ ~RefreshSucceeds)
         => \A id \in Range(requestQueue) : reqs'[id].st = "rejected" ]_vars

\* C35: while isRefreshing is true a refresh request is on its way (sent, or
\* waiting for a retry), so that its answer ends the refresh; and whatever
\* final answer the refresh request gets, isRefreshing is false afterwards.
C35_RefreshTerminates ==
  /\ [](isRefreshing
        => \E f \in RefreshIds : reqs[f].st \in {"sent", "delaying"})
  /\ [][ ( /\ apiOut'.op = "response"
           /\ apiOut'.req \in RefreshIds
           /\ reqs'[apiOut'.req].st # "delaying" )
         => ~isRefreshing' ]_vars

\* the ids of the open documents, in tab order
OpenIds == [i \in DOMAIN openFiles |-> openFiles[i].id]
\* the open documents that remain when the one with this id is closed
Remaining(id) ==
  LET Keep(f) == f.id # id IN SelectSeq(openFiles, Keep)

\* C36: no two open files have the same id; currentFile is null or has the
\* id of an open file; closing the current file makes the last remaining
\* open file current (null if none remains), and closing another file
\* leaves currentFile as it was.
C36_OpenFilesDistinctCurrentAmongThem ==
  /\ [](\A i, j \in DOMAIN openFiles : OpenIds[i] = OpenIds[j] => i = j)
  /\ [](currentDoc = NoDoc \/ \E i \in DOMAIN openFiles : OpenIds[i] = currentDoc.id)
  /\ [][ editorStoreOut'.op = "closeFile"
         => IF currentDoc.id = editorStoreOut'.id
            THEN LET rest == Remaining(editorStoreOut'.id)
                 IN  currentDoc' = IF rest = <<>> THEN NoDoc ELSE rest[Len(rest)]
            ELSE currentDoc' = currentDoc ]_vars

\* one of three open files was closed and the last of the two remaining
\* files is current
C36_Witness ==
  /\ editorStoreOut.op = "closeFile"
  /\ Len(openFiles) = 2
  /\ currentDoc = openFiles[2]
  /\ editorStoreOut.id \notin {OpenIds[1], OpenIds[2]}

\* ---- FileSystemService: the operations ----
\* The tree is a function from the ids of its nodes to the nodes; a node is
\* in the children array of the node its parentId names (root nodes are in
\* fileTree itself).

\* nanoid(): an id no node has
nanoid(t) == CHOOSE i \in NodeIds : i \notin DOMAIN t

findNodeById(t, id) == id \in DOMAIN t

buildPath(t, parentId, name) ==
  IF findNodeById(t, parentId) THEN t[parentId].path \o <<"/">> \o name
  ELSE <<"/">> \o name

\* createFile and createFolder: the new node goes under a folder parent, or
\* to the root when parentId is null; any other parentId returns null
createNode(t, parentId, name, type) ==
  LET id == nanoid(t)
      node == [name |-> name, type |-> type,
               path |-> IF parentId # NoParent THEN buildPath(t, parentId, name)
                        ELSE <<"/">> \o name,
               parentId |-> parentId]
  IN  IF parentId # NoParent /\ ~(findNodeById(t, parentId) /\ t[parentId].type = "folder")
      THEN [tree |-> t, ret |-> NULL]
      ELSE [tree |-> (id :> node) @@ t, ret |-> "node"]

createFile(t, parentId, name) == createNode(t, parentId, name, "file")
createFolder(t, parentId, name) == createNode(t, parentId, name, "folder")

\* node n is the node id or lies below it
RECURSIVE IsUnder(_, _, _)
IsUnder(t, n, id) ==
  \/ n = id
  \/ t[n].parentId \in DOMAIN t /\ IsUnder(t, t[n].parentId, id)

\* deleteNode: splicing the node out of its array removes its subtree
deleteNode(t, id) ==
  IF ~findNodeById(t, id) THEN [tree |-> t, ret |-> "false"]
  ELSE LET keep == {n \in DOMAIN t : ~IsUnder(t, n, id)}
       IN  [tree |-> [n \in keep |-> t[n]], ret |-> "true"]

\* the position of the last "/" of a path, 0 if it has none
LastSlash(p) ==
  IF \E i \in DOMAIN p : p[i] = "/"
  THEN CHOOSE i \in DOMAIN p : p[i] = "/" /\ \A j \in DOMAIN p : p[j] = "/" => j <= i
  ELSE 0

\* oldPath.split('/'), last part replaced by newName, join('/')
renamedPath(oldPath, newName) == SubSeq(oldPath, 1, LastSlash(oldPath)) \o newName

\* updateChildrenPaths: the path of a node below the renamed node id, whose
\* own new path is p
RECURSIVE updateChildrenPaths(_, _, _, _)
updateChildrenPaths(t, n, id, p) ==
  IF n = id THEN p
  ELSE updateChildrenPaths(t, t[n].parentId, id, p) \o <<"/">> \o t[n].name

renameNode(t, id, newName) ==
  IF ~findNodeById(t, id) THEN [tree |-> t, ret |-> "false"]
  ELSE LET p == renamedPath(t[id].path, newName)
       IN  [tree |-> [n \in DOMAIN t |->
                        IF n = id THEN [t[n] EXCEPT !.name = newName, !.path = p]
                        ELSE IF t[id].type = "folder" /\ IsUnder(t, n, id)
                             THEN [t[n] EXCEPT !.path = updateChildrenPaths(t, n, id, p)]
                             ELSE t[n]],
            ret |-> "true"]

FsCommit(r, op, parentId) ==
  /\ fileTree' = r.tree
  /\ fsOut' = [op |-> op, parentId |-> parentId, ret |-> r.ret]
  /\ UNCHANGED <<clock, notFs>>

CreateFile(parentId, name) ==
  /\ DOMAIN fileTree # NodeIds
  /\ FsCommit(createFile(fileTree, parentId, name), "createFile", parentId)
CreateFolder(parentId, name) ==
  /\ DOMAIN fileTree # NodeIds
  /\ FsCommit(createFolder(fileTree, parentId, name), "createFolder", parentId)
RenameNode(id, newName) ==
  /\ \A n \in DOMAIN renameNode(fileTree, id, newName).tree :
       Len(renameNode(fileTree, id, newName).tree[n].path) <= MaxPath
  /\ FsCommit(renameNode(fileTree, id, newName), "renameNode", NoParent)
DeleteNode(id) == FsCommit(deleteNode(fileTree, id), "deleteNode", NoParent)

NextFileSystem ==
  \/ \E parentId \in NodeIds \cup {NoParent}, name \in FsNames : CreateFile(parentId, name)
  \/ \E parentId \in NodeIds \cup {NoParent}, name \in FsNames : CreateFolder(parentId, name)
  \/ \E id \in NodeIds, newName \in FsNames : RenameNode(id, newName)
  \/ \E id \in NodeIds : DeleteNode(id)

SpecFileSystem == Init /\ [][NextFileSystem]_vars

\* the path the tree structure gives a node: the parent's path, "/", the name
ExpectedPath(n) ==
  (IF fileTree[n].parentId = NoParent THEN <<>> ELSE fileTree[fileTree[n].parentId].path)
  \o <<"/">> \o fileTree[n].name

\* C37: after any sequence of createFile, createFolder, renameNode and
\* deleteNode every node's path is its parent's path + "/" + its name ("/" +
\* name for a root node), only folders have children, and a create whose
\* parentId does not identify an existing folder returns null and leaves the
\* tree unchanged.
C37_PathsFollowTheTree ==
  /\ [](\A n \in DOMAIN fileTree :
          /\ fileTree[n].path = ExpectedPath(n)
          /\ fileTree[n].parentId # NoParent
               => /\ fileTree[n].parentId \in DOMAIN fileTree
                  /\ fileTree[fileTree[n].parentId].type = "folder")
  /\ [][ (/\ fsOut'.op \in {"createFile", "createFolder"}
          /\ fsOut'.parentId # NoParent
          /\ ~(fsOut'.parentId \in DOMAIN fileTree /\ fileTree[fsOut'.parentId].type = "folder"))
         => fsOut'.ret = NULL /\ fileTree' = fileTree ]_vars

\* ---- useAutoSave: the hook ----
AutoSave ==
  [content |-> asContent, debouncedContent |-> debouncedContent, enabled |-> asEnabled,
   previousContent |-> previousContent, savePromises |-> savePromises,
   onSave |-> NoCall, saved |-> NoCall]

\* the effect on [debouncedContent, onSave, enabled]; kind is what this call
\* of onSave does
useAutoSaveEffect(s, kind) ==
  IF ~s.enabled THEN s
  ELSE IF s.debouncedContent # s.previousContent /\ s.debouncedContent # ""
  THEN LET called == [s EXCEPT !.onSave = s.debouncedContent]
       IN  CASE kind = "promise" ->
                  [called EXCEPT !.savePromises = @ \cup {s.debouncedContent}]
             [] kind = "void" ->
                  [called EXCEPT !.previousContent = s.debouncedContent,
                                 !.saved = s.debouncedContent]
             [] OTHER -> called
  ELSE s

\* savePromise.then(...): the content of the resolved call is recorded
thenSaved(s, c) ==
  [s EXCEPT !.previousContent = c, !.saved = c, !.savePromises = @ \ {c}]

AutoSaveCommit(s, op, effect) ==
  /\ asContent' = s.content
  /\ debouncedContent' = s.debouncedContent
  /\ asEnabled' = s.enabled
  /\ previousContent' = s.previousContent
  /\ savePromises' = s.savePromises
  /\ autoSaveOut' = [op |-> op, effect |-> effect, onSave |-> s.onSave, saved |-> s.saved]
  /\ UNCHANGED <<clock, notAutoSave>>

\* a render with a new content: no dependency of the effect changes
ContentChange(c) ==
  /\ c # asContent
  /\ AutoSaveCommit([AutoSave EXCEPT !.content = c], "content", FALSE)

\* the debounce has settled: useDebounce returns the content passed last
DebounceSettle(kind) ==
  /\ debouncedContent # asContent
  /\ AutoSaveCommit(useAutoSaveEffect([AutoSave EXCEPT !.debouncedContent = asContent], kind),
                    "settle", TRUE)

\* a render with another onSave function (CodeEditor passes a new one each
\* time)
NewOnSave(kind) == AutoSaveCommit(useAutoSaveEffect(AutoSave, kind), "onSave", TRUE)

SetEnabled(b, kind) ==
  /\ b # asEnabled
  /\ AutoSaveCommit(useAutoSaveEffect([AutoSave EXCEPT !.enabled = b], kind), "enabled", TRUE)

SaveResolved(c) ==
  /\ c \in savePromises
  /\ AutoSaveCommit(thenSaved(AutoSave, c), "resolved", FALSE)

SaveRejected(c) ==
  /\ c \in savePromises
  /\ AutoSaveCommit([AutoSave EXCEPT !.savePromises = @ \ {c}], "rejected", FALSE)

NextUseAutoSave ==
  \/ \E c \in Contents : ContentChange(c)
  \/ \E kind \in SaveKinds : DebounceSettle(kind)
  \/ \E kind \in SaveKinds : NewOnSave(kind)
  \/ \E b \in BOOLEAN, kind \in SaveKinds : SetEnabled(b, kind)
  \/ \E c \in Contents : SaveResolved(c)
  \/ \E c \in Contents : SaveRejected(c)

SpecUseAutoSave == Init /\ [][NextUseAutoSave]_vars

\* C38: onSave is invoked only when auto-save is enabled and with a debounced
\* content that differs from the content saved last; a content is recorded
\* as saved only when its onSave has completed successfully; and whenever
\* the effect runs enabled with a debounced content that differs from the
\* content saved last (the empty content and a content after a failed save
\* included) that content is passed to onSave.
C38_AutoSaveSavesEverySettledChange ==
  /\ [][ autoSaveOut'.onSave # NoCall
         => /\ asEnabled'
            /\ autoSaveOut'.onSave = debouncedContent'
            /\ autoSaveOut'.onSave # previousContent ]_vars
  /\ [][ previousContent' # previousContent
         => /\ previousContent' = autoSaveOut'.saved
            /\ \/ autoSaveOut'.op = "resolved" /\ previousContent' \in savePromises
               \/ autoSaveOut'.onSave = previousContent' ]_vars
  /\ [][ (autoSaveOut'.effect /\ asEnabled' /\ debouncedContent' # previousContent)
         => autoSaveOut'.onSave = debouncedContent' ]_vars

====
